---- MODULE Spec2Model ----
(***************************************************************************)
(* Model of plot.py: a linear script that loads out.csv with               *)
(* pandas.read_csv, pivots it to a (discount x learning_rate) grid of      *)
(* scores, draws an annotated seaborn heatmap and shows it.                *)
(*                                                                         *)
(* Floats are modelled as exact decimal fixed-point numbers: the integer n *)
(* stands for n * 10^-FracDigits.  NaN (a missing grid cell) is the empty  *)
(* tuple and a present cell holding x is the 1-tuple <<x>>.  A text is a   *)
(* sequence of one-character strings.                                      *)
(***************************************************************************)
EXTENDS Integers, Sequences, FiniteSets

VARIABLES pc, file, data, grid_data, fig, windowOpen, error, history, written

vars == <<pc, file, data, grid_data, fig, windowOpen, error, history, written>>

(***************************** bounds **************************************)
\* Largest number of data records in out.csv.
MaxRows == 4
\* Number of fractional decimal digits the model's numbers carry.
FracDigits == 5

(***************************** numbers *************************************)
RECURSIVE Pow10(_)
Pow10(k) == IF k = 0 THEN 1 ELSE 10 * Pow10(k - 1)

\* The decimal n * 10^-k as a model number, e.g. Dec(75, 2) is 0.75.
Dec(n, k) == n * Pow10(FracDigits - k)

Abs(x) == IF x < 0 THEN -x ELSE x

None == <<>>
NaN == <<>>

Range(s) == {s[i] : i \in 1..Len(s)}

\* Position of the first occurrence of x in the sequence s (x occurs in s).
Pos(s, x) == CHOOSE i \in 1..Len(s) : s[i] = x /\ \A j \in 1..(i - 1) : s[j] # x

(***************************** out.csv *************************************)
\* Header rows out.csv may carry: the expected one, the same columns in
\* another order, and one header lacking each of the three columns.
Headers ==
    { <<"discount", "learning_rate", "score">>,
      <<"score", "discount", "learning_rate">>,
      <<"gamma", "learning_rate", "score">>,
      <<"discount", "alpha", "score">>,
      <<"discount", "learning_rate", "reward">> }

\* Records out.csv may carry (three numeric fields each).
RowPool ==
    { <<Dec(90, 2), Dec(1, 2),  Dec(75, 2)>>,
      <<Dec(90, 2), Dec(10, 2), Dec(80, 2)>>,
      <<Dec(99, 2), Dec(1, 2),  Dec(82, 2)>>,
      <<Dec(99, 2), Dec(10, 2), Dec(91, 2)>>,
      <<Dec(90, 2), Dec(1, 2),  Dec(12346, 5)>>,
      <<Dec(50, 2), Dec(10, 2), Dec(99996, 5)>>,
      <<Dec(99, 2), Dec(10, 2), Dec(-5, 5)>> }

Records == UNION {[1..n -> RowPool] : n \in 0..MaxRows}

NoFile(status) == [status |-> status, header |-> <<>>, records |-> <<>>]

Files ==
    {NoFile("absent"), NoFile("unreadable"), NoFile("empty")}
    \cup {[status |-> "ok", header |-> h, records |-> r] : h \in Headers, r \in Records}

(***************************** pandas.read_csv *****************************)
Ok(v) == [err |-> "none", val |-> <<v>>]
Raise(e) == [err |-> e, val |-> None]

\* A variant that swallows a failed open and hands back an empty table.
read_csv_lenient(f) ==
    IF f.status # "ok"
    THEN Ok([columns |-> <<>>, rows |-> <<>>])
    ELSE Ok([columns |-> f.header,
             rows |-> [i \in 1..Len(f.records) |->
                         [c \in Range(f.header) |-> f.records[i][Pos(f.header, c)]]]])

\* pd.read_csv('out.csv'): the header row names the columns, every record
\* becomes one row keyed by column name.  A missing, unreadable or empty
\* file raises.
read_csv(f) ==
    CASE f.status = "absent"     -> Raise("FileNotFoundError")
      [] f.status = "unreadable" -> Raise("PermissionError")
      [] f.status = "empty"      -> Raise("EmptyDataError")
      [] OTHER ->
           Ok([columns |-> f.header,
               rows |-> [i \in 1..Len(f.records) |->
                           [c \in Range(f.header) |-> f.records[i][Pos(f.header, c)]]]])

(***************************** DataFrame.pivot *****************************)
RECURSIVE SortAsc(_)
\* The elements of a finite set of numbers in increasing order.
SortAsc(S) ==
    IF S = {} THEN <<>>
    ELSE LET m == CHOOSE x \in S : \A y \in S : x <= y
         IN  <<m>> \o SortAsc(S \ {m})

RECURSIVE UniqueInOrder(_)
\* The distinct values of a sequence in order of first appearance.
UniqueInOrder(vals) ==
    IF vals = <<>> THEN <<>>
    ELSE LET front == UniqueInOrder(SubSeq(vals, 1, Len(vals) - 1))
             last  == vals[Len(vals)]
         IN  IF last \in Range(front) THEN front ELSE Append(front, last)

\* The labels of one axis of the unstacked frame: the distinct key values,
\* sorted.
SortedUnique(vals) == SortAsc(Range(vals))

\* A variant that fills the cells no row maps to with zero.
ZeroCell == <<0>>

\* What a cell no row maps to holds: pivot passes no fill_value, so NaN.
EmptyCell == NaN

\* The value matrix of the grid: every cell starts empty, then each row of
\* the table, in table order, writes its value into the cell (row key,
\* column key).
RECURSIVE Place(_, _, _, _, _, _, _)
Place(mat, rows, k, index, columns, values, labels) ==
    IF k > Len(rows) THEN mat
    ELSE LET i == Pos(labels.index, rows[k][index])
             j == Pos(labels.columns, rows[k][columns])
         IN  Place([mat EXCEPT ![i][j] = <<rows[k][values]>>],
                   rows, k + 1, index, columns, values, labels)

\* The unstacked frame of a table whose named columns exist: sorted row and
\* column labels and the value matrix.
Unstacked(df, index, columns, values) ==
    LET n == Len(df.rows)
        labels == [index   |-> SortedUnique([i \in 1..n |-> df.rows[i][index]]),
                   columns |-> SortedUnique([i \in 1..n |-> df.rows[i][columns]])]
        blank == [i \in 1..Len(labels.index) |->
                    [j \in 1..Len(labels.columns) |-> EmptyCell]]
    IN  [index |-> labels.index, columns |-> labels.columns,
         values |-> Place(blank, df.rows, 1, index, columns, values, labels)]

\* A variant that does not reject duplicate keys: the last row of a key wins.
pivot_last_wins(df, index, columns, values) ==
    LET have == Range(df.columns)
    IN  CASE index \notin have   -> Raise("KeyError")
          [] columns \notin have -> Raise("KeyError")
          [] values \notin have  -> Raise("KeyError")
          [] OTHER -> Ok(Unstacked(df, index, columns, values))

\* df.pivot(index=, columns=, values=): KeyError when a named column is
\* missing, ValueError when two rows carry the same (index, columns) key,
\* otherwise the grid.
pivot(df, index, columns, values) ==
    LET have == Range(df.columns)
        n    == Len(df.rows)
        keys == {<<df.rows[i][index], df.rows[i][columns]>> : i \in 1..n}
    IN  CASE index \notin have   -> Raise("KeyError")
          [] columns \notin have -> Raise("KeyError")
          [] values \notin have  -> Raise("KeyError")
          [] Cardinality(keys) < n -> Raise("ValueError")
          [] OTHER -> Ok(Unstacked(df, index, columns, values))

(***************************** sns.heatmap *********************************)
\* Digits after the decimal point in fmt=".4f".
FmtPrecision == 4

Digit(d) == <<"0", "1", "2", "3", "4", "5", "6", "7", "8", "9">>[d + 1]

RECURSIVE IntStr(_)
\* The decimal digits of a natural number.
IntStr(n) == IF n < 10 THEN <<Digit(n)>> ELSE Append(IntStr(n \div 10), Digit(n % 10))

RECURSIVE Pad(_, _)
\* The last w decimal digits of n, zero-padded on the left.
Pad(n, w) == IF w = 0 THEN <<>> ELSE Append(Pad(n \div 10, w - 1), Digit(n % 10))

\* format(x, ".<prec>f"): sign, integer part, and prec fractional digits of
\* x rounded to prec places (exact ties go to the even neighbour).
FormatF(x, prec) ==
    LET scale == Pow10(FracDigits - prec)
        a     == Abs(x)
        q0    == a \div scale
        r     == a % scale
        q     == IF 2 * r > scale \/ (2 * r = scale /\ q0 % 2 = 1) THEN q0 + 1 ELSE q0
        sign  == IF x < 0 THEN <<"-">> ELSE <<>>
        frac  == IF prec > 0 THEN <<".">> \o Pad(q % Pow10(prec), prec) ELSE <<>>
    IN  sign \o IntStr(q \div Pow10(prec)) \o frac

\* A variant that annotates with two decimals.
AnnotateShort(x) == FormatF(x, 2)

\* The annotation text of one cell value.
Annotate(x) == FormatF(x, FmtPrecision)

NoText == <<>>

\* sns.heatmap(grid, cmap='viridis', annot=True, fmt=".4f", cbar_kws=...):
\* an empty grid has no colour range and raises; otherwise every non-NaN
\* cell is annotated with its formatted value and NaN cells are masked.
heatmap(grid) ==
    IF Len(grid.index) = 0 \/ Len(grid.columns) = 0
    THEN Raise("ValueError")
    ELSE Ok([cmap |-> "viridis", cbar_label |-> "Score",
             annot |-> [i \in 1..Len(grid.index) |->
                          [j \in 1..Len(grid.columns) |->
                             IF grid.values[i][j] = NaN THEN NoText
                             ELSE Annotate(grid.values[i][j][1])]]])

(***************************** the script **********************************)
StepOrder ==
    <<"read_csv", "pivot", "figure", "heatmap", "title", "xlabel", "ylabel", "show">>

NoFig == [figsize |-> <<>>, heatmap |-> None, title |-> "", xlabel |-> "", ylabel |-> ""]

Init ==
    /\ pc = "load"
    /\ file \in Files
    /\ data = None
    /\ grid_data = None
    /\ fig = NoFig
    /\ windowOpen = FALSE
    /\ error = "none"
    /\ history = <<>>
    /\ written = {}

\* An uncaught exception: the trace-back is printed and the interpreter exits.
Abort(e) == pc' = "aborted" /\ error' = e

\* data = pd.read_csv('out.csv')
Load ==
    /\ pc = "load"
    /\ history' = Append(history, "read_csv")
    /\ LET r == read_csv(file)
       IN  IF r.err # "none"
           THEN Abort(r.err) /\ data' = data
           ELSE pc' = "reshape" /\ data' = r.val /\ error' = error
    /\ UNCHANGED <<file, grid_data, fig, windowOpen, written>>

\* A variant that pivots with index and columns exchanged.
ReshapeSwapped ==
    /\ pc = "reshape"
    /\ history' = Append(history, "pivot")
    /\ LET r == pivot(data[1], "learning_rate", "discount", "score")
       IN  IF r.err # "none"
           THEN Abort(r.err) /\ grid_data' = grid_data
           ELSE pc' = "figure" /\ grid_data' = r.val /\ error' = error
    /\ UNCHANGED <<file, data, fig, windowOpen, written>>

\* A variant that takes the cell values from the learning_rate column.
ReshapeWrongValues ==
    /\ pc = "reshape"
    /\ history' = Append(history, "pivot")
    /\ LET r == pivot(data[1], "discount", "learning_rate", "learning_rate")
       IN  IF r.err # "none"
           THEN Abort(r.err) /\ grid_data' = grid_data
           ELSE pc' = "figure" /\ grid_data' = r.val /\ error' = error
    /\ UNCHANGED <<file, data, fig, windowOpen, written>>

\* A variant that rebinds data to the grid (data = data.pivot(...)).
ReshapeInPlace ==
    /\ pc = "reshape"
    /\ history' = Append(history, "pivot")
    /\ LET r == pivot(data[1], "discount", "learning_rate", "score")
       IN  IF r.err # "none"
           THEN Abort(r.err) /\ grid_data' = grid_data /\ data' = data
           ELSE pc' = "figure" /\ grid_data' = r.val /\ data' = r.val /\ error' = error
    /\ UNCHANGED <<file, fig, windowOpen, written>>

\* A variant that catches a failed pivot and goes on with an empty grid.
ReshapeFallback ==
    /\ pc = "reshape"
    /\ history' = Append(history, "pivot")
    /\ LET r == pivot(data[1], "discount", "learning_rate", "score")
       IN  /\ pc' = "figure"
           /\ error' = error
           /\ grid_data' = IF r.err # "none"
                           THEN <<[index |-> <<>>, columns |-> <<>>, values |-> <<>>]>>
                           ELSE r.val
    /\ UNCHANGED <<file, data, fig, windowOpen, written>>

\* grid_data = data.pivot(index='discount', columns='learning_rate', values='score')
Reshape ==
    /\ pc = "reshape"
    /\ history' = Append(history, "pivot")
    /\ LET r == pivot(data[1], "discount", "learning_rate", "score")
       IN  IF r.err # "none"
           THEN Abort(r.err) /\ grid_data' = grid_data
           ELSE pc' = "figure" /\ grid_data' = r.val /\ error' = error
    /\ UNCHANGED <<file, data, fig, windowOpen, written>>

\* plt.figure(figsize=(10, 6))
Figure ==
    /\ pc = "figure"
    /\ history' = Append(history, "figure")
    /\ fig' = [fig EXCEPT !.figsize = <<10, 6>>]
    /\ pc' = "heatmap"
    /\ UNCHANGED <<file, data, grid_data, windowOpen, error, written>>

\* sns.heatmap(grid_data, cmap='viridis', annot=True, fmt=".4f", cbar_kws={'label': 'Score'})
Heatmap ==
    /\ pc = "heatmap"
    /\ history' = Append(history, "heatmap")
    /\ LET r == heatmap(grid_data[1])
       IN  IF r.err # "none"
           THEN Abort(r.err) /\ fig' = fig
           ELSE pc' = "title" /\ fig' = [fig EXCEPT !.heatmap = r.val] /\ error' = error
    /\ UNCHANGED <<file, data, grid_data, windowOpen, written>>

\* plt.title('2D Grid of Scores')
Title ==
    /\ pc = "title"
    /\ history' = Append(history, "title")
    /\ fig' = [fig EXCEPT !.title = "2D Grid of Scores"]
    /\ pc' = "xlabel"
    /\ UNCHANGED <<file, data, grid_data, windowOpen, error, written>>

\* plt.xlabel('Learning Rate')
XLabel ==
    /\ pc = "xlabel"
    /\ history' = Append(history, "xlabel")
    /\ fig' = [fig EXCEPT !.xlabel = "Learning Rate"]
    /\ pc' = "ylabel"
    /\ UNCHANGED <<file, data, grid_data, windowOpen, error, written>>

\* plt.ylabel('Discount')
YLabel ==
    /\ pc = "ylabel"
    /\ history' = Append(history, "ylabel")
    /\ fig' = [fig EXCEPT !.ylabel = "Discount"]
    /\ pc' = "show"
    /\ UNCHANGED <<file, data, grid_data, windowOpen, error, written>>

\* A variant whose show() opens the window and returns at once.
ShowNonBlocking ==
    /\ pc = "show"
    /\ history' = Append(history, "show")
    /\ windowOpen' = TRUE
    /\ pc' = "done"
    /\ UNCHANGED <<file, data, grid_data, fig, error, written>>

\* plt.show(): the viewer window opens and the call blocks in its event loop.
Show ==
    /\ pc = "show"
    /\ history' = Append(history, "show")
    /\ windowOpen' = TRUE
    /\ pc' = "blocked"
    /\ UNCHANGED <<file, data, grid_data, fig, error, written>>

\* The user closes the viewer window.
CloseWindow ==
    /\ pc = "blocked"
    /\ windowOpen
    /\ windowOpen' = FALSE
    /\ UNCHANGED <<pc, file, data, grid_data, fig, error, history, written>>

\* plt.show() returns once the window is gone; the script ends.
ShowReturn ==
    /\ pc = "blocked"
    /\ ~windowOpen
    /\ pc' = "done"
    /\ UNCHANGED <<file, data, grid_data, fig, windowOpen, error, history, written>>

Next ==
    \/ Load
    \/ Reshape
    \/ Figure
    \/ Heatmap
    \/ Title
    \/ XLabel
    \/ YLabel
    \/ Show
    \/ CloseWindow
    \/ ShowReturn

Spec == Init /\ [][Next]_vars

(***************************** properties **********************************)
Required == {"discount", "learning_rate", "score"}

\* The script is past the reshape step.
Reshaped == pc \notin {"load", "reshape"}

\* The table has the three named columns.
WellFormed(df) == Required \subseteq Range(df.columns)

PairOf(row) == <<row["discount"], row["learning_rate"]>>

\* No two rows of the table carry the same (discount, learning_rate) pair.
UniquePairs(df) ==
    \A i, j \in 1..Len(df.rows) : PairOf(df.rows[i]) = PairOf(df.rows[j]) => i = j

Discounts(df) == {df.rows[i]["discount"] : i \in 1..Len(df.rows)}
Rates(df) == {df.rows[i]["learning_rate"] : i \in 1..Len(df.rows)}
Pairs(df) == {PairOf(df.rows[i]) : i \in 1..Len(df.rows)}

\* The grid is a rectangular matrix with one row per row label and one
\* column per column label, and no label occurs twice.
Rectangular(g) ==
    /\ Len(g.values) = Len(g.index)
    /\ \A i \in 1..Len(g.index) : Len(g.values[i]) = Len(g.columns)
    /\ Cardinality(Range(g.index)) = Len(g.index)
    /\ Cardinality(Range(g.columns)) = Len(g.columns)

\* What the grid holds at labels (d, l): the cell at the position of d among
\* the row labels and of l among the column labels.
At(g, d, l) ==
    LET i == CHOOSE k \in 1..Len(g.index) : g.index[k] = d
        j == CHOOSE k \in 1..Len(g.columns) : g.columns[k] = l
    IN  g.values[i][j]

Filled(g) ==
    {<<i, j>> \in (1..Len(g.index)) \X (1..Len(g.columns)) : g.values[i][j] # NaN}

\* C1: for a well-formed table with unique (discount, learning_rate) pairs
\* the reshape step yields a grid with one row per distinct discount and one
\* column per distinct learning_rate, which holds at every pair of the table
\* that row's score and holds exactly as many scores as the table has pairs.
C1_GridHoldsEveryScore ==
    (data # None /\ WellFormed(data[1]) /\ UniquePairs(data[1]) /\ Reshaped) =>
        /\ grid_data # None
        /\ LET df == data[1]
               g  == grid_data[1]
           IN  /\ Rectangular(g)
               /\ Len(g.index) = Cardinality(Discounts(df))
               /\ Len(g.columns) = Cardinality(Rates(df))
               /\ Range(g.index) = Discounts(df)
               /\ Range(g.columns) = Rates(df)
               /\ \A k \in 1..Len(df.rows) :
                    At(g, df.rows[k]["discount"], df.rows[k]["learning_rate"])
                        = <<df.rows[k]["score"]>>
               /\ Cardinality(Filled(g)) = Len(df.rows)

C1_Witness ==
    /\ pc = "figure"
    /\ grid_data # None
    /\ Len(data[1].rows) >= 3
    /\ Len(grid_data[1].index) # Len(grid_data[1].columns)

\* Two rows of the table carry the same (discount, learning_rate) pair.
HasDuplicate(df) == WellFormed(df) /\ ~UniquePairs(df)

\* C2: reshaping a table with a duplicated (discount, learning_rate) pair
\* ends in an error: the run is aborted by the pivot's exception and no grid
\* exists, so no value was dropped, overwritten or averaged into a cell.
C2_DuplicateIsError ==
    (data # None /\ HasDuplicate(data[1]) /\ Reshaped) =>
        /\ pc = "aborted"
        /\ error = "ValueError"
        /\ grid_data = None
        /\ history = <<"read_csv", "pivot">>

C2_Witness ==
    /\ pc = "aborted"
    /\ data # None
    /\ HasDuplicate(data[1])
    /\ \E i, j \in 1..Len(data[1].rows) :
         /\ i # j
         /\ PairOf(data[1].rows[i]) = PairOf(data[1].rows[j])
         /\ data[1].rows[i]["score"] # data[1].rows[j]["score"]

\* C3: when out.csv does not exist the run aborts at the load step: the
\* reshape step and every plotting step are never executed.
C3_MissingFileStopsAtLoad ==
    file.status = "absent" =>
        /\ pc \in {"load", "aborted"}
        /\ history \in {<<>>, <<"read_csv">>}
        /\ (history # <<>> => pc = "aborted" /\ error = "FileNotFoundError")
        /\ data = None
        /\ grid_data = None
        /\ fig = NoFig
        /\ ~windowOpen

C3_Witness ==
    /\ file.status = "absent"
    /\ pc = "aborted"
    /\ error = "FileNotFoundError"
    /\ history = <<"read_csv">>

\* The four rows (discount, learning_rate, score) of the worked example.
ExampleRows ==
    << <<Dec(90, 2), Dec(1, 2),  Dec(75, 2)>>,
       <<Dec(90, 2), Dec(10, 2), Dec(80, 2)>>,
       <<Dec(99, 2), Dec(1, 2),  Dec(82, 2)>>,
       <<Dec(99, 2), Dec(10, 2), Dec(91, 2)>> >>

IsExample(df) ==
    /\ WellFormed(df)
    /\ Len(df.rows) = Len(ExampleRows)
    /\ \A k \in 1..Len(ExampleRows) :
         <<df.rows[k]["discount"], df.rows[k]["learning_rate"], df.rows[k]["score"]>>
             = ExampleRows[k]

\* C4: for the rows (0.9, 0.01, 0.75), (0.9, 0.1, 0.80), (0.99, 0.01, 0.82),
\* (0.99, 0.1, 0.91) the grid is 2x2 with row keys {0.9, 0.99}, column keys
\* {0.01, 0.1} and the cell (0.99, 0.1) equal to 0.91.
C4_ExampleGrid ==
    (data # None /\ IsExample(data[1]) /\ Reshaped) =>
        /\ grid_data # None
        /\ LET g == grid_data[1]
           IN  /\ Rectangular(g)
               /\ Len(g.index) = 2
               /\ Len(g.columns) = 2
               /\ Range(g.index) = {Dec(90, 2), Dec(99, 2)}
               /\ Range(g.columns) = {Dec(1, 2), Dec(10, 2)}
               /\ At(g, Dec(99, 2), Dec(10, 2)) = <<Dec(91, 2)>>

C4_Witness ==
    /\ pc = "figure"
    /\ data # None
    /\ IsExample(data[1])
    /\ grid_data # None

Digits == {"0", "1", "2", "3", "4", "5", "6", "7", "8", "9"}

\* The text is an optional minus sign, one or more digits, a decimal point
\* and exactly four digits.
FourDecimals(t) ==
    /\ Len(t) >= 6
    /\ t[Len(t) - 4] = "."
    /\ \A k \in (Len(t) - 3)..Len(t) : t[k] \in Digits
    /\ \A k \in 1..(Len(t) - 5) : t[k] \in Digits \/ (k = 1 /\ t[k] = "-" /\ Len(t) >= 7)

\* C5: every score of the grid is annotated on the heatmap with exactly four
\* digits after the decimal point, and the score 0.75 is annotated "0.7500".
C5_AnnotationsHaveFourDecimals ==
    fig.heatmap # None =>
        LET g == grid_data[1]
            a == fig.heatmap[1].annot
        IN  \A i \in 1..Len(g.index) : \A j \in 1..Len(g.columns) :
              g.values[i][j] # NaN =>
                /\ FourDecimals(a[i][j])
                /\ (g.values[i][j] = <<Dec(75, 2)>> =>
                       a[i][j] = <<"0", ".", "7", "5", "0", "0">>)

C5_Witness ==
    /\ fig.heatmap # None
    /\ \E i \in 1..Len(grid_data[1].index) : \E j \in 1..Len(grid_data[1].columns) :
         /\ grid_data[1].values[i][j] = <<Dec(75, 2)>>
         /\ fig.heatmap[1].annot[i][j] = <<"0", ".", "7", "5", "0", "0">>
    /\ \E i \in 1..Len(grid_data[1].index) : \E j \in 1..Len(grid_data[1].columns) :
         /\ grid_data[1].values[i][j] = <<Dec(99996, 5)>>
         /\ fig.heatmap[1].annot[i][j] = <<"1", ".", "0", "0", "0", "0">>

\* (a) out.csv is missing or unreadable.
FileUnavailable == file.status \in {"absent", "unreadable"}

\* (b) out.csv lacks one of the columns discount, learning_rate, score.
FileLacksColumn == file.status = "ok" /\ ~(Required \subseteq Range(file.header))

\* (c) two records of out.csv carry the same (discount, learning_rate) pair.
FileHasDuplicate ==
    /\ file.status = "ok"
    /\ Required \subseteq Range(file.header)
    /\ LET d == CHOOSE k \in 1..Len(file.header) : file.header[k] = "discount"
           l == CHOOSE k \in 1..Len(file.header) : file.header[k] = "learning_rate"
       IN  \E i, j \in 1..Len(file.records) :
             /\ i # j
             /\ file.records[i][d] = file.records[j][d]
             /\ file.records[i][l] = file.records[j][l]

\* C6: each of the error classes (a), (b), (c) aborts the run at the step
\* that fails, that step is run once (no retry), nothing is substituted for
\* its result (no fallback), and no figure, heatmap or window ever exists.
C6_ErrorsAbortWithoutOutput ==
    (FileUnavailable \/ FileLacksColumn \/ FileHasDuplicate) =>
        /\ pc \in {"load", "reshape", "aborted"}
        /\ history \in {<<>>, <<"read_csv">>, <<"read_csv", "pivot">>}
        /\ (FileUnavailable /\ history # <<>> => pc = "aborted" /\ data = None)
        /\ (Len(history) = 2 => pc = "aborted")
        /\ (pc = "aborted" => error # "none")
        /\ (pc # "aborted" => error = "none")
        /\ grid_data = None
        /\ fig = NoFig
        /\ ~windowOpen

C6_Witness ==
    /\ FileLacksColumn
    /\ "score" \notin Range(file.header)
    /\ Len(file.records) >= 2
    /\ pc = "aborted"
    /\ error = "KeyError"

IsPrefix(s, t) == Len(s) <= Len(t) /\ \A k \in 1..Len(s) : s[k] = t[k]

\* C7: the steps run at most once each and only in the order read file,
\* reshape, figure, heatmap, title, axis labels, show; no step runs after a
\* step failed; once show has started the script stays blocked while the
\* window is open and ends only after the user closed it; an ended run takes
\* no further step.
C7_LinearThenBlocked ==
    [][ /\ IsPrefix(history', StepOrder)
        /\ (history' # history =>
              /\ history' = Append(history, StepOrder[Len(history) + 1])
              /\ error = "none"
              /\ pc \notin {"aborted", "blocked", "done"})
        /\ (error' # "none" => pc' = "aborted")
        /\ (pc = "blocked" /\ windowOpen => pc' = "blocked")
        /\ (pc = "blocked" /\ pc' # "blocked" => ~windowOpen /\ pc' = "done")
        /\ (pc' \in {"blocked", "done"} => history' = StepOrder)
        /\ (history' = StepOrder /\ history # StepOrder => pc' = "blocked" /\ windowOpen')
        /\ (pc' = "done" => pc \in {"blocked", "done"} /\ ~windowOpen')
        /\ (pc \in {"aborted", "done"} => vars' = vars)
      ]_vars

C7_Witness ==
    /\ pc = "done"
    /\ history = StepOrder
    /\ ~windowOpen
    /\ error = "none"

\* The permutations of 1..n, for every table length n.
PermTable ==
    [n \in 0..MaxRows |->
       {p \in [1..n -> 1..n] : \A i, j \in 1..n : p[i] = p[j] => i = j}]

Permuted(df, p) == [df EXCEPT !.rows = [k \in 1..Len(df.rows) |-> df.rows[p[k]]]]

\* C8: the grid does not depend on the order of the table's rows: for a
\* table with unique pairs, pivoting any permutation of its rows yields the
\* grid the script computed (same row keys, column keys and cells).
C8_RowOrderIrrelevant ==
    (data # None /\ WellFormed(data[1]) /\ UniquePairs(data[1]) /\ Reshaped) =>
        /\ grid_data # None
        /\ \A p \in PermTable[Len(data[1].rows)] :
             pivot(Permuted(data[1], p), "discount", "learning_rate", "score")
                 = Ok(grid_data[1])

C8_Witness ==
    /\ pc = "figure"
    /\ grid_data # None
    /\ Len(data[1].rows) >= 3
    /\ data[1].rows[1]["discount"] > data[1].rows[2]["discount"]
    /\ data[1].rows[2]["learning_rate"] > data[1].rows[3]["learning_rate"]

\* C9: no step of any run, successful or aborted, changes out.csv, writes a
\* file, or changes the loaded table.
C9_NoPersistentEffect ==
    [][ /\ file' = file
        /\ written' = {}
        /\ (data # None => data' = data)
      ]_vars

C9_Witness ==
    /\ pc = "done"
    /\ file.status = "ok"
    /\ data # None
    /\ Len(data[1].rows) >= 2
    /\ written = {}

\* The table's pairs do not cover discounts x learning rates.
Sparse(df) == Pairs(df) # Discounts(df) \X Rates(df)

\* C10: when the unique pairs of the table do not cover the cross product
\* of its discounts and learning rates the reshape step still succeeds; the
\* grid has one row per discount and one column per learning rate, a cell
\* holds a score exactly when the table has a row for its pair, and every
\* other cell is NaN, not zero.
C10_UncoveredCellsAreMissing ==
    (data # None /\ WellFormed(data[1]) /\ UniquePairs(data[1]) /\ Sparse(data[1])
        /\ Reshaped) =>
        /\ grid_data # None
        /\ error = "none"
        /\ LET df == data[1]
               g  == grid_data[1]
           IN  /\ Rectangular(g)
               /\ Range(g.index) = Discounts(df)
               /\ Range(g.columns) = Rates(df)
               /\ \A d \in Discounts(df) : \A l \in Rates(df) :
                    /\ (At(g, d, l) # NaN <=> <<d, l>> \in Pairs(df))
                    /\ (<<d, l>> \notin Pairs(df) =>
                          At(g, d, l) = NaN /\ At(g, d, l) # <<0>>)

C10_Witness ==
    /\ pc = "figure"
    /\ grid_data # None
    /\ Sparse(data[1])
    /\ Len(data[1].rows) >= 3
    /\ \E i \in 1..Len(grid_data[1].index) : \E j \in 1..Len(grid_data[1].columns) :
         grid_data[1].values[i][j] = NaN

====
